---- MODULE Spec2Model ----
(***************************************************************************)
(* The coverage-resolution engine of notoize (src/src/lib.rs):             *)
(* NotoizeClient::new, NotoizeClient::notoize and FontStack::map_string,   *)
(* with the script classifier table of generate_script!.                   *)
(*                                                                         *)
(* Strings are TLA+ strings; Len, \o and SubSeq act on them character by   *)
(* character, so substring tests, byte-wise ordering, case folding and     *)
(* number formatting are computed as the Rust code computes them.          *)
(***************************************************************************)
EXTENDS Integers, Sequences, FiniteSets, TLC

\* Largest codepoint a text may contain (codepoints are 0..MaxCp).
MaxCp == 5
\* Largest number of characters in a text passed to notoize.
MaxLen == 2

VARIABLES
    remote,        \* path |-> block document served by the content host
    font_support,  \* NotoizeClient.font_support: codepoint |-> variant list
    fetched,       \* path |-> number of fetches of that document by this client
    op,            \* the last operation: "new", "notoize", "panic" or "map_string"
    cold,          \* the last notoize call started on an empty cache
    codepoints,    \* the sorted, deduplicated codepoints of the last call
    names,         \* FontStack.names returned by the last call
    map,           \* FontStack.map returned by the last call
    failed,        \* the document whose fetch or decoding failed in the last call
    report         \* the MapString made from the last FontStack, when one was made

vars == <<remote, font_support, fetched, op, cold, codepoints, names, map, failed, report>>

----------------------------------------------------------------------------
(* Option<T> and character-level string helpers.                           *)

None == <<>>
Some(v) == <<v>>

Upper == "ABCDEFGHIJKLMNOPQRSTUVWXYZ"
Lower == "abcdefghijklmnopqrstuvwxyz"
DecDigits == "0123456789"
HexDigits == "0123456789abcdef"

CharAt(s, i) == SubSeq(s, i, i)

CharsOf(s) == {CharAt(s, i) : i \in 1..Len(s)}

IndexIn(s, ch) == CHOOSE i \in 1..Len(s) : CharAt(s, i) = ch

\* The byte value of an ASCII character (u8 of the UTF-8 encoding) for the
\* characters that occur in variant names, script names and document keys.
Byte ==
    [ch \in {" ", "+", "-"} \cup CharsOf(DecDigits) \cup CharsOf(Upper) \cup CharsOf(Lower) |->
        IF ch = " " THEN 32
        ELSE IF ch = "+" THEN 43
        ELSE IF ch = "-" THEN 45
        ELSE IF ch \in CharsOf(DecDigits) THEN 47 + IndexIn(DecDigits, ch)
        ELSE IF ch \in CharsOf(Upper) THEN 64 + IndexIn(Upper, ch)
        ELSE 96 + IndexIn(Lower, ch)]

SetMin(S) == CHOOSE x \in S : \A y \in S : x <= y
SetMax(S) == CHOOSE x \in S : \A y \in S : y <= x

\* str::contains(pat)
contains(s, pat) ==
    \E i \in 1..(Len(s) - Len(pat) + 1) : SubSeq(s, i, i + Len(pat) - 1) = pat

\* Ord for String: byte-wise lexicographic, a proper prefix is smaller.
StrLess(a, b) ==
    LET n == IF Len(a) < Len(b) THEN Len(a) ELSE Len(b)
        d == {i \in 1..n : CharAt(a, i) # CharAt(b, i)}
    IN  IF d = {} THEN Len(a) < Len(b)
        ELSE Byte[CharAt(a, SetMin(d))] < Byte[CharAt(b, SetMin(d))]

\* str::to_lowercase on ASCII text
RECURSIVE to_lowercase(_)
to_lowercase(s) ==
    IF Len(s) = 0 THEN ""
    ELSE LET ch == CharAt(s, 1)
             lo == IF ch \in CharsOf(Upper) THEN CharAt(Lower, IndexIn(Upper, ch)) ELSE ch
         IN  lo \o to_lowercase(SubSeq(s, 2, Len(s)))

\* Itertools::sorted_by_key / sorted: a stable sort under the strict order Less.
SortedBy(s, Less(_, _)) ==
    LET n == Len(s)
        pos == [i \in 1..n |-> 1 + Cardinality({j \in 1..n :
                        Less(s[j], s[i]) \/ (~Less(s[i], s[j]) /\ j < i)})]
    IN  [p \in 1..n |-> s[CHOOSE i \in 1..n : pos[i] = p]]

IntLess(a, b) == a < b

\* Itertools::dedup: drop consecutive repetitions.
RECURSIVE dedup(_)
dedup(s) ==
    IF Len(s) <= 1 THEN s
    ELSE IF s[1] = s[2] THEN dedup(Tail(s))
    ELSE <<s[1]>> \o dedup(Tail(s))

\* Decimal rendering of a natural number.
RECURSIVE DecStr(_)
DecStr(n) ==
    IF n < 10 THEN CharAt(DecDigits, n + 1)
    ELSE DecStr(n \div 10) \o CharAt(DecDigits, (n % 10) + 1)

\* Lower-case hexadecimal rendering of a natural number.
RECURSIVE HexStr(_)
HexStr(n) ==
    IF n < 16 THEN CharAt(HexDigits, n + 1)
    ELSE HexStr(n \div 16) \o CharAt(HexDigits, (n % 16) + 1)

\* Left padding with zeros up to a minimum width ({:03}, {:04x}).
RECURSIVE ZeroPad(_, _)
ZeroPad(s, w) == IF Len(s) >= w THEN s ELSE ZeroPad("0" \o s, w)

\* str::parse::<u32>: an optional '+', then one or more decimal digits.
ParseOk(k) ==
    LET d == IF Len(k) > 0 /\ CharAt(k, 1) = "+" THEN SubSeq(k, 2, Len(k)) ELSE k
    IN  Len(d) > 0 /\ CharsOf(d) \subseteq CharsOf(DecDigits)

RECURSIVE ParseDigits(_, _)
ParseDigits(d, acc) ==
    IF Len(d) = 0 THEN acc
    ELSE ParseDigits(SubSeq(d, 2, Len(d)), 10 * acc + IndexIn(DecDigits, CharAt(d, 1)) - 1)

ParseU32(k) ==
    ParseDigits(IF CharAt(k, 1) = "+" THEN SubSeq(k, 2, Len(k)) ELSE k, 0)

----------------------------------------------------------------------------
(* The script classifier generated by generate_script!.                    *)

\* The rows of the generate_script! invocation: <<variants, script>>.
ScriptTable ==
    <<
       <<<<"Sans", "Serif", "Sans Mono">>, "">>,
       <<<<"Sans Adlam", "Sans Adlam Unjoined">>, "Adlam">>,
       <<<<"Serif Ahom">>, "Ahom">>,
       <<<<"Sans AnatoHiero">>, "Anatolian Hieroglyphs">>,
       <<<<"Sans Arabic", "Kufi Arabic", "Naskh Arabic", "Nastaliq Urdu">>, "Arabic">>,
       <<<<"Sans Armenian", "Serif Armenian">>, "Armenian">>,
       <<<<"Sans Avestan">>, "Avestan">>,
       <<<<"Sans Balinese", "Serif Balinese">>, "Balinese">>,
       <<<<"Sans Bamum">>, "Bamum">>,
       <<<<"Sans Bassa Vah">>, "Bassa Vah">>,
       <<<<"Sans Batak">>, "Batak">>,
       <<<<"Sans Bengali", "Serif Bengali">>, "Bengali">>,
       <<<<"Sans Bhaiksuki">>, "Bhaiksuki">>,
       <<<<"Sans Brahmi">>, "Brahmi">>,
       <<<<"Sans Buginese">>, "Buginese">>,
       <<<<"Sans Buhid">>, "Buhid">>,
       <<<<"Sans Canadian Aboriginal">>, "Canadian Aboriginal">>,
       <<<<"Sans Carian">>, "Carian">>,
       <<<<"Sans Caucasian Albanian">>, "Caucasian Albanian">>,
       <<<<"Sans Chakma">>, "Chakma">>,
       <<<<"Sans Cham">>, "Cham">>,
       <<<<"Sans Cherokee">>, "Cherokee">>,
       <<<<"Sans Chorasmian">>, "Chorasmian">>,
       <<<<"Sans CJK HK", "Sans CJK JP", "Sans CJK KR", "Sans CJK SC", "Sans CJK TC">>, "CJK">>,
       <<<<"Sans Coptic">>, "Coptic">>,
       <<<<"Sans Cuneiform">>, "Cuneiform">>,
       <<<<"Sans Cypriot">>, "Cypriot">>,
       <<<<"Sans Cypro Minoan">>, "Cypro Minoan">>,
       <<<<"Sans Deseret">>, "Deseret">>,
       <<<<"Sans Devanagari", "Serif Devanagari">>, "Devanagari">>,
       <<<<"Serif Dives Akuru">>, "Dives Akuru">>,
       <<<<"Serif Dogra">>, "Dogra">>,
       <<<<"Sans Duployan">>, "Duployan">>,
       <<<<"Sans EgyptHiero">>, "Egyptian Hieroglyphs">>,
       <<<<"Sans Elbasan">>, "Elbasan">>,
       <<<<"Sans Elymaic">>, "Elymaic">>,
       <<<<"Color Emoji">>, "Emoji">>,
       <<<<"Sans Ethiopic", "Serif Ethiopic">>, "Ethiopic">>,
       <<<<"Sans Georgian", "Serif Georgian">>, "Georgian">>,
       <<<<"Sans Glagolitic">>, "Glagolitic">>,
       <<<<"Sans Gothic">>, "Gothic">>,
       <<<<"Sans Grantha", "Serif Grantha">>, "Grantha">>,
       <<<<"Sans Gujarati", "Serif Gujarati">>, "Gujarati">>,
       <<<<"Sans Gunjala Gondi">>, "Gunjala Gondi">>,
       <<<<"Sans Gurmukhi", "Serif Gurmukhi">>, "Gurmukhi">>,
       <<<<"Sans Hanifi Rohingya">>, "Hanifi Rohingya">>,
       <<<<"Sans Hanunoo">>, "Hanunoo">>,
       <<<<"Sans Hatran">>, "Hatran">>,
       <<<<"Sans Hebrew", "Serif Hebrew", "Rashi Hebrew">>, "Hebrew">>,
       <<<<"Sans ImpAramaic">>, "Imperial Aramaic">>,
       <<<<"Sans Indic Siyaq Numbers">>, "Indic Siyaq Numbers">>,
       <<<<"Sans InsPahlavi">>, "Inscriptional Pahlavi">>,
       <<<<"Sans Inscriptional Parthian">>, "Inscriptional Parthian">>,
       <<<<"Sans Javanese">>, "Javanese">>,
       <<<<"Sans Kaithi">>, "Kaithi">>,
       <<<<"Sans Kannada", "Serif Kannada">>, "Kannada">>,
       <<<<"Sans Kawi">>, "Kawi">>,
       <<<<"Serif Khitan Small Script", "Fangsong KSS Rotated", "Fangsong KSS Vertical">>, "Khitan">>,
       <<<<"Sans Kayah Li">>, "Kayah Li">>,
       <<<<"Sans Kharoshthi">>, "Kharoshthi">>,
       <<<<"Sans Khmer", "Serif Khmer">>, "Khmer">>,
       <<<<"Sans Khojki", "Serif Khojki">>, "Khojki">>,
       <<<<"Sans Khudawadi">>, "Khudawadi">>,
       <<<<"Sans Lao", "Sans Lao Looped", "Serif Lao">>, "Lao">>,
       <<<<"Sans Lepcha">>, "Lepcha">>,
       <<<<"Sans Limbu">>, "Limbu">>,
       <<<<"Sans Linear A">>, "Linear A">>,
       <<<<"Sans Linear B">>, "Linear B">>,
       <<<<"Sans Lisu">>, "Lisu">>,
       <<<<"Sans Lycian">>, "Lycian">>,
       <<<<"Sans Lydian">>, "Lydian">>,
       <<<<"Sans Mahajani">>, "Mahajani">>,
       <<<<"Sans Malayalam", "Serif Malayalam">>, "Malayalam">>,
       <<<<"Sans Mandaic">>, "Mandaic">>,
       <<<<"Serif Makasar">>, "Makasar">>,
       <<<<"Sans Manichaean">>, "Manichaean">>,
       <<<<"Sans Masaram Gondi">>, "Masaram Gondi">>,
       <<<<"Sans Marchen">>, "Marchen">>,
       <<<<"Sans Math">>, "Math">>,
       <<<<"Sans Mayan Numerals">>, "Mayan Numerals">>,
       <<<<"Sans Medefaidrin">>, "Medefaidrin">>,
       <<<<"Sans Meetei Mayek">>, "Meetei Mayek">>,
       <<<<"Sans Mende Kikakui">>, "Mende Kikakui">>,
       <<<<"Sans Meroitic">>, "Meroitic">>,
       <<<<"Sans Miao">>, "Miao">>,
       <<<<"Sans Modi">>, "Modi">>,
       <<<<"Sans Mongolian">>, "Mongolian">>,
       <<<<"Sans Mro">>, "Mro">>,
       <<<<"Sans Multani">>, "Multani">>,
       <<<<"Music">>, "Music">>,
       <<<<"Sans Myanmar", "Serif Myanmar">>, "Myanmar">>,
       <<<<"Sans Nabataean">>, "Nabataean">>,
       <<<<"Sans Nag Mundari">>, "Nag Mundari">>,
       <<<<"Sans Nandinagari">>, "Nandinagari">>,
       <<<<"Sans New Tai Lue">>, "New Tai Lue">>,
       <<<<"Sans Newa">>, "Newa">>,
       <<<<"Sans NKo", "Sans NKo Unjoined">>, "NKo">>,
       <<<<"Sans Nushu", "Traditional Nushu">>, "Nushu">>,
       <<<<"Serif NP Hmong">>, "Nyiakeng Puachue Hmong">>,
       <<<<"Sans Ogham">>, "Ogham">>,
       <<<<"Sans Ol Chiki">>, "Ol Chiki">>,
       <<<<"Sans OldHung">>, "Old Hungarian">>,
       <<<<"Sans Old Italic">>, "Old Italic">>,
       <<<<"Sans OldNorArab">>, "Old North Arabian">>,
       <<<<"Sans Old Permic">>, "Old Permic">>,
       <<<<"Sans OldPersian">>, "Old Persian">>,
       <<<<"Sans OldSogdian">>, "Old Sogdian">>,
       <<<<"Sans OldSouArab">>, "Old South Arabian">>,
       <<<<"Sans Old Turkic">>, "Old Turkic">>,
       <<<<"Serif Old Uyghur">>, "Old Uyghur">>,
       <<<<"Sans Oriya", "Serif Oriya">>, "Oriya">>,
       <<<<"Sans Osage">>, "Osage">>,
       <<<<"Sans Osmanya">>, "Osmanya">>,
       <<<<"Serif Ottoman Siyaq">>, "Ottoman Siyaq">>,
       <<<<"Sans Pahawh Hmong">>, "Pahawh Hmong">>,
       <<<<"Sans Palmyrene">>, "Palmyrene">>,
       <<<<"Sans PauCinHau">>, "Pau Cin Hau">>,
       <<<<"Sans PhagsPa">>, "Phags-Pa">>,
       <<<<"Sans Phoenician">>, "Phoenician">>,
       <<<<"Sans PsaPahlavi">>, "Psalter Pahlavi">>,
       <<<<"Sans Rejang">>, "Rejang">>,
       <<<<"Sans Runic">>, "Runic">>,
       <<<<"Sans Samaritan">>, "Samaritan">>,
       <<<<"Sans Saurashtra">>, "Saurashtra">>,
       <<<<"Sans Sharada">>, "Sharada">>,
       <<<<"Sans Shavian">>, "Shavian">>,
       <<<<"Sans Siddham">>, "Siddham">>,
       <<<<"Sans SignWriting">>, "SignWriting">>,
       <<<<"Sans Sinhala", "Serif Sinhala">>, "Sinhala">>,
       <<<<"Sans Sogdian">>, "Sogdian">>,
       <<<<"Sans Sora Sompeng">>, "Sora Sompeng">>,
       <<<<"Sans Soyombo">>, "Soyombo">>,
       <<<<"Sans Sundanese">>, "Sundanese">>,
       <<<<"Sans Syloti Nagri">>, "Syloti Nagri">>,
       <<<<"Sans Symbols">>, "Symbols">>,
       <<<<"Sans Symbols 2">>, "Symbols 2">>,
       <<<<"Sans Syriac", "Sans Syriac Eastern", "Sans Syriac Western">>, "Syriac">>,
       <<<<"Sans Tamil", "Serif Tamil">>, "Tamil">>,
       <<<<"Sans Tamil Supplement">>, "Tamil Supplement">>,
       <<<<"Sans Tagalog">>, "Tagalog">>,
       <<<<"Sans Tagbanwa">>, "Tagbanwa">>,
       <<<<"Sans Tai Le">>, "Tai Le">>,
       <<<<"Sans Tai Tham">>, "Tai Tham">>,
       <<<<"Sans Tai Viet">>, "Tai Viet">>,
       <<<<"Sans Takri">>, "Takri">>,
       <<<<"Sans Tangsa">>, "Tangsa">>,
       <<<<"Serif Tangut">>, "Tangut">>,
       <<<<"Sans Telugu", "Serif Telugu">>, "Telugu">>,
       <<<<"Sans Thaana">>, "Thaana">>,
       <<<<"Sans Thai", "Sans Thai Looped Regular", "Serif Thai">>, "Thai">>,
       <<<<"Serif Tibetan">>, "Tibetan">>,
       <<<<"Sans Tifinagh", "Sans Tifinagh APT", "Sans Tifinagh Adrar", "Sans Tifinagh Agraw Imazighen", "Sans Tifinagh Ahaggar", "Sans Tifinagh Air", "Sans Tifinagh Azawagh", "Sans Tifinagh Ghat", "Sans Tifinagh Hawad", "Sans Tifinagh Rhissa Ixa", "Sans Tifinagh SIL", "Sans Tifinagh Tawellemmet">>, "Tifinagh">>,
       <<<<"Sans Tirhuta">>, "Tirhuta">>,
       <<<<"Serif Toto">>, "Toto">>,
       <<<<"Sans Ugaritic">>, "Ugaritic">>,
       <<<<"Sans Vai">>, "Vai">>,
       <<<<"Sans Vithkuqi", "Serif Vithkuqi">>, "Vithkuqi">>,
       <<<<"Sans Wancho">>, "Wancho">>,
       <<<<"Sans WarangCiti">>, "Warang Citi">>,
       <<<<"Serif Yezidi">>, "Yezidi">>,
       <<<<"Sans Yi">>, "Yi">>,
       <<<<"Sans Zanabazar">>, "Zanabazar">>,
       <<<<"Znamenny Musical Notation">>, "Znamenny Musical Notation">>
    >>

RowHas(r, font) == \E i \in 1..Len(ScriptTable[r][1]) : ScriptTable[r][1][i] = font

\* The variants of the rows lo..hi, in table order.
RECURSIVE FlattenRows(_, _)
FlattenRows(lo, hi) ==
    IF lo > hi THEN <<>>
    ELSE IF lo = hi THEN ScriptTable[lo][1]
    ELSE LET mid == (lo + hi) \div 2
         IN  FlattenRows(lo, mid) \o FlattenRows(mid + 1, hi)

all_variants == FlattenRows(1, Len(ScriptTable))

SeqSet(s) == {s[i] : i \in 1..Len(s)}

\* script() panics when no row matches the name.
known(font) == font \in SeqSet(all_variants)

\* The script of each variant of the table: that of the first row matching it.
ScriptOf ==
    [font \in SeqSet(all_variants) |->
        ScriptTable[SetMin({r \in 1..Len(ScriptTable) : RowHas(r, font)})][2]]

\* As script, every variant a script of its own.
script_own(font) == font

script(font) == ScriptOf[font]

\* script(f).0.to_lowercase(), for each variant of the table.
LowerScriptOf == [font \in SeqSet(all_variants) |-> to_lowercase(script(font))]

ScriptKeyLess(f, g) == StrLess(LowerScriptOf[f], LowerScriptOf[g])

ScriptLess(a, b) == StrLess(to_lowercase(a), to_lowercase(b))

\* scripts(): the scripts of a variant list, sorted case-insensitively, deduplicated.
scripts(fonts) ==
    dedup(SortedBy([i \in 1..Len(fonts) |-> script(fonts[i])], ScriptLess))

\* As missing_variants, the variants of the list itself not left out.
missing_variants_all(font_names) ==
    SelectSeq(all_variants,
              LAMBDA v : \E i \in 1..Len(font_names) : script(font_names[i]) = script(v))

\* missing_variants(): the table's variants of the list's scripts that the
\* list does not have, in table order.
missing_variants(font_names) ==
    SelectSeq(all_variants,
              LAMBDA v : /\ \E i \in 1..Len(font_names) : script(font_names[i]) = script(v)
                         /\ v \notin SeqSet(font_names))

----------------------------------------------------------------------------
(* FontStack::map_string.                                                  *)

RECURSIVE JoinGroups(_, _)
JoinGroups(s, i) ==
    IF i > Len(s) THEN ""
    ELSE LET sep == IF i = 1 THEN ""
                    ELSE IF LowerScriptOf[s[i]] = LowerScriptOf[s[i - 1]]
                         THEN ", " ELSE "\r\n    "
         IN  sep \o s[i] \o JoinGroups(s, i + 1)

\* stringify: variants grouped by lower-cased script, groups on separate lines.
stringify(stuff) == JoinGroups(SortedBy(stuff, ScriptKeyLess), 1)

\* The elements of a set of numbers in ascending order (Itertools::sorted).
RECURSIVE sorted(_)
sorted(S) == IF S = {} THEN <<>> ELSE <<SetMin(S)>> \o sorted(S \ {SetMin(S)})

\* As ReportedCps, the filter on empty lists left out.
ReportedCpsUnfiltered(m) == sorted(DOMAIN m)

\* As ReportedCps, the codepoints descending.
ReportedCpsDescending(m) ==
    LET s == sorted({c \in DOMAIN m : m[c] # <<>>})
    IN  [i \in 1..Len(s) |-> s[Len(s) + 1 - i]]

\* The entries map_string walks: non-empty lists, ascending codepoint.
ReportedCps(m) == sorted({c \in DOMAIN m : m[c] # <<>>})

ReportLine(c, body) == ZeroPad(HexStr(c), 4) \o "\r\n    " \o body \o "\r\n"

RECURSIVE ReportAll(_, _, _)
ReportAll(m, cs, i) ==
    IF i > Len(cs) THEN ""
    ELSE ReportLine(cs[i], stringify(m[cs[i]])) \o ReportAll(m, cs, i + 1)

\* As in_conflict, one script being enough.
in_conflict_any(fonts) == Len(scripts(fonts)) > 0

\* scripts(fonts).len() > 1
in_conflict(fonts) == Len(scripts(fonts)) > 1

RECURSIVE ReportConflicts(_, _, _)
ReportConflicts(m, cs, i) ==
    IF i > Len(cs) THEN ""
    ELSE (IF in_conflict(m[cs[i]])
          THEN ReportLine(cs[i], stringify(m[cs[i]])) ELSE "")
         \o ReportConflicts(m, cs, i + 1)

RECURSIVE ReportMissing(_, _, _)
ReportMissing(m, cs, i) ==
    IF i > Len(cs) THEN ""
    ELSE (LET bad == missing_variants(m[cs[i]])
          IN  IF bad # <<>> THEN ReportLine(cs[i], stringify(bad)) ELSE "")
         \o ReportMissing(m, cs, i + 1)

\* The outcome of map_string when script() meets a variant outside the table.
MapStringPanic == [panic |-> "unknown font name"]

map_string(m) ==
    IF \E c \in DOMAIN m : \E i \in 1..Len(m[c]) : ~known(m[c][i])
    THEN MapStringPanic
    ELSE LET cs == ReportedCps(m)
         IN  [all |-> ReportAll(m, cs, 1),
              conflicts |-> ReportConflicts(m, cs, 1),
              missing |-> ReportMissing(m, cs, 1)]

----------------------------------------------------------------------------
(* The block index and the block documents of the content host.            *)

\* NotoizeClient.blocks as decoded from blocks.json: sorted, disjoint
\* ranges that leave the codepoints 0, 3 and those above 5 in no block.
blocks ==
    << [ix |-> 0, start |-> 1, end |-> 2, name |-> "Block A"],
       [ix |-> 1, start |-> 4, end |-> 5, name |-> "Block B"] >>

\* format!("blocks/block-{i:03}.json")
BlockPath(i) == "blocks/block-" \o ZeroPad(DecStr(i), 3) \o ".json"

\* Block documents (BlockData) the host may serve for block 0. The second
\* carries a block-wide list over its own lists; the third lists a key of
\* the other block and a key without a list.
DocsA ==
    { [cps |-> ("1" :> [fonts |-> Some(<<"Sans", "Sans Devanagari", "Sans Display">>)]
             @@ "2" :> [fonts |-> Some(<<"Serif Devanagari", "Sans Devanagari">>)]),
       fonts |-> None],
      [cps |-> ("1" :> [fonts |-> Some(<<"Serif">>)]
             @@ "2" :> [fonts |-> None]),
       fonts |-> Some(<<"Sans", "Sans Arabic UI">>)],
      [cps |-> ("2" :> [fonts |-> None]
             @@ "4" :> [fonts |-> Some(<<"Serif">>)]),
       fonts |-> None] }

\* Block documents the host may serve for block 1. The second lists one
\* codepoint of the block, with a variant the script table does not have and
\* a name that has "Display" in its middle, and a key outside every block.
DocsB ==
    { [cps |-> ("4" :> [fonts |-> Some(<<"Kufi Arabic", "Sans Arabic", "Sans Arabic UI">>)]
             @@ "5" :> [fonts |-> Some(<<"Sans Armenian", "Serif Armenian">>)]),
       fonts |-> None],
      [cps |-> ("3" :> [fonts |-> Some(<<"Sans Armenian">>)]
             @@ "5" :> [fonts |-> Some(<<"Music", "Sans Sunuwar", "Serif Display Italic">>)]),
       fonts |-> None] }

\* A document decodes and its keys parse: the call's unwraps do not panic.
WellFormed(d) == \A k \in DOMAIN d.cps : ParseOk(k)

\* The iteration orders of a HashMap<String, _>: a seed permutes the keys.
MaxKeys == SetMax({Cardinality(DOMAIN d.cps) : d \in DocsA \cup DocsB})

HashSeeds == Permutations(1..MaxKeys)

\* Some enumeration of a finite set.
RECURSIVE AnyOrder(_)
AnyOrder(T) ==
    IF T = {} THEN <<>>
    ELSE LET x == CHOOSE x \in T : TRUE IN <<x>> \o AnyOrder(T \ {x})

\* HashMap::iter: the keys of m in the order the seed h gives them.
IterOrder(m, h) ==
    LET ks == SortedBy(AnyOrder(DOMAIN m), StrLess)
        ByHash(i, j) == h[i] < h[j]
        ord == SortedBy([i \in 1..Len(ks) |-> i], ByHash)
    IN  [p \in 1..Len(ks) |-> ks[ord[p]]]

----------------------------------------------------------------------------
(* NotoizeClient::notoize.                                                 *)

Texts == UNION {[1..n -> 0..MaxCp] : n \in 0..MaxLen}

\* As codepoints_of, the sort left out.
codepoints_unsorted(text) == dedup(text)

\* text.chars().map(|c| c as u32).sorted().dedup().collect_vec()
codepoints_of(text) == dedup(SortedBy(text, IntLess))

\* self.blocks.iter().find(|b| b.start <= c && c <= b.end)
find(c) ==
    LET hits == {i \in 1..Len(blocks) : blocks[i].start <= c /\ c <= blocks[i].end}
    IN  IF hits = {} THEN None ELSE Some(blocks[SetMin(hits)])

\* BlockData { cps: HashMap::new(), fonts: None }
EmptyData == [cps |-> <<>>, fonts |-> None]

\* As kept, only names ending in "UI" or "Display" dropped.
kept_unless_suffix(f) ==
    ~\E a \in {"UI", "Display"} :
        Len(f) >= Len(a) /\ SubSeq(f, Len(f) - Len(a) + 1, Len(f)) = a

\* The filter closure: names containing "UI" or "Display" are dropped.
kept(f) == ~\E a \in {"UI", "Display"} : contains(f, a)

\* The variant list of one entry v of the document e.
EntryFonts(e, v) ==
    SelectSeq(IF e.fonts = None
              THEN (IF v.fonts = None THEN <<>> ELSE v.fonts[1])
              ELSE e.fonts[1],
              kept)

\* As formatted, the list computed once, from the first entry visited.
formatted_hoisted(e, h) ==
    LET ks == IterOrder(e.cps, h)
    IN  [k \in {ParseU32(ks[i]) : i \in 1..Len(ks)} |-> EntryFonts(e, e.cps[ks[1]])]

\* formatted: e.cps visited in hash order and collected into a HashMap<u32, _>
\* (a later pair replaces an earlier pair with the same key).
formatted(e, h) ==
    LET ks == IterOrder(e.cps, h)
        pairs == [i \in 1..Len(ks) |-> <<ParseU32(ks[i]), EntryFonts(e, e.cps[ks[i]])>>]
    IN  [k \in {pairs[i][1] : i \in 1..Len(pairs)} |->
            pairs[SetMax({i \in 1..Len(pairs) : pairs[i][1] = k})][2]]

\* formatted for each document and seed, evaluated once.
Formatted ==
    [e \in DocsA \cup DocsB \cup {EmptyData} |-> [h \in HashSeeds |-> formatted(e, h)]]

\* The path of each block's document, evaluated once.
PathOf == [i \in {blocks[j].ix : j \in 1..Len(blocks)} |-> BlockPath(i)]

\* As NeedsFetch, the cache not consulted.
NeedsFetchUncached(disk, fs, c, path) == path \notin disk

\* The fetch guard: the document is not on disk and the codepoint is not cached.
NeedsFetch(disk, fs, c, path) ==
    /\ path \notin disk
    /\ (c \notin DOMAIN fs \/ c \notin DOMAIN fs)

\* As InsertBlock, every pair of the document inserted, in the range or not.
InsertAllPairs(fs, b, fm) ==
    LET rng == b.start..b.end
    IN  [k \in DOMAIN fs \cup rng \cup DOMAIN fm |->
            IF k \in DOMAIN fm THEN fm[k] ELSE IF k \in rng THEN <<>> ELSE fs[k]]

\* As InsertBlock, without the empty list for the codepoints not listed.
InsertListed(fs, b, fm) ==
    LET rng == (b.start..b.end) \cap DOMAIN fm
    IN  [k \in DOMAIN fs \cup rng |-> IF k \in rng THEN fm[k] ELSE fs[k]]

\* for c in block.start..=block.end { self.font_support.insert(..) }
InsertBlock(fs, b, fm) ==
    LET rng == b.start..b.end
    IN  [k \in DOMAIN fs \cup rng |->
            IF k \in rng THEN (IF k \in DOMAIN fm THEN fm[k] ELSE <<>>) ELSE fs[k]]

\* One iteration of the cache fill loop for the codepoint c.
FillStep(st, c, h) ==
    LET block == find(c)
    IN  IF block # st.old_block /\ block # None
        THEN LET b == block[1]
                 path == PathOf[b.ix]
                 miss == NeedsFetch(st.disk, st.font_support, c, path)
                 data == IF miss THEN remote[path] ELSE st.data
             IN  [font_support |-> InsertBlock(st.font_support, b, Formatted[data][h]),
                  data |-> data,
                  old_block |-> block,
                  disk |-> IF miss THEN st.disk \cup {path} ELSE st.disk,
                  fetched |-> IF miss THEN [st.fetched EXCEPT ![path] = @ + 1]
                              ELSE st.fetched]
        ELSE [st EXCEPT !.old_block = block]

RECURSIVE FillLoop(_, _, _, _)
FillLoop(cps, i, st, h) ==
    IF i > Len(cps) THEN st ELSE FillLoop(cps, i + 1, FillStep(st, cps[i], h), h)

\* As SansKeyLess, the names compared alone.
NameLess(e, g) == StrLess(e, g)

\* The sort key (!e.contains("Sans"), e.clone()); false orders before true.
SansKeyLess(e, g) ==
    LET ke == ~contains(e, "Sans")
        kg == ~contains(g, "Sans")
    IN  (~ke /\ kg) \/ (ke = kg /\ StrLess(e, g))

\* As PushIfAbsent, without the membership test.
PushAlways(fonts, name) == Append(fonts, name)

\* if !fonts.contains(&name) { fonts.push(name) }
PushIfAbsent(fonts, name) ==
    IF name \in SeqSet(fonts) THEN fonts ELSE Append(fonts, name)

\* The variants of a support list under sorted_by_key.
sorted_support(l) == SortedBy(l, SansKeyLess)

\* Every support list a document of the host can yield.
SupportLists ==
    {<<>>} \cup {EntryFonts(e, e.cps[k]) : <<e, k>> \in
                    UNION {{<<d, kk>> : kk \in DOMAIN d.cps} : d \in DocsA \cup DocsB}}

\* sorted_support on those lists, evaluated once.
SortedSupport == [l \in SupportLists |-> sorted_support(l)]

\* As family, the prefix left out.
family_bare(sel) == sel

\* format!("Noto {sel}")
family(sel) == "Noto " \o sel

RECURSIVE SelectLoop(_, _, _, _)
SelectLoop(cps, i, fs, fonts) ==
    IF i > Len(cps) THEN fonts
    ELSE IF cps[i] \notin DOMAIN fs THEN SelectLoop(cps, i + 1, fs, fonts)
    ELSE LET f == SortedSupport[fs[cps[i]]]
         IN  SelectLoop(cps, i + 1, fs,
                        IF f # <<>> THEN PushIfAbsent(fonts, family(f[1])) ELSE fonts)

\* As Run, the selection loop starting at the second codepoint.
RunSkipsFirst(fs, ft, text, h) ==
    LET cps == codepoints_of(text)
        st == FillLoop(cps, 1,
                       [font_support |-> fs, data |-> EmptyData, old_block |-> None,
                        disk |-> {}, fetched |-> ft], h)
    IN  [codepoints |-> cps,
         font_support |-> st.font_support,
         fetched |-> st.fetched,
         names |-> SelectLoop(cps, 2, st.font_support, <<>>),
         map |-> st.font_support]

\* The call as a whole, from the cache fs and fetch log ft: the scratch
\* directory is empty at entry and exit, data starts as the empty document.
Run(fs, ft, text, h) ==
    LET cps == codepoints_of(text)
        st == FillLoop(cps, 1,
                       [font_support |-> fs, data |-> EmptyData, old_block |-> None,
                        disk |-> {}, fetched |-> ft], h)
    IN  [codepoints |-> cps,
         font_support |-> st.font_support,
         fetched |-> st.fetched,
         names |-> SelectLoop(cps, 1, st.font_support, <<>>),
         map |-> st.font_support]

----------------------------------------------------------------------------
(* The state machine.                                                      *)

Paths == {PathOf[i] : i \in DOMAIN PathOf}

NoFetches == [p \in Paths |-> 0]

\* No map_string call was made on the last FontStack.
NoReport == [none |-> TRUE]

\* The documents the host may serve, one per block.
Hosts ==
    {d \in [Paths -> DocsA \cup DocsB] :
        /\ d[PathOf[0]] \in DocsA
        /\ d[PathOf[1]] \in DocsB
        /\ \A p \in Paths : WellFormed(d[p])}

Init ==
    /\ remote \in Hosts
    /\ font_support = <<>>
    /\ fetched = NoFetches
    /\ op = "new"
    /\ cold = FALSE
    /\ codepoints = <<>>
    /\ names = <<>>
    /\ map = <<>>
    /\ failed = None
    /\ report = NoReport

\* NotoizeClient::new(): a client with the block index and an empty cache.
New ==
    /\ font_support' = <<>>
    /\ fetched' = NoFetches
    /\ op' = "new"
    /\ failed' = None
    /\ UNCHANGED <<remote, cold, codepoints, names, map, report>>

\* client.notoize(text), the documents' maps iterating under the seed h.
\* A panic ends the process: after one only a new client is made.
Notoize(text, h) ==
    LET r == Run(font_support, fetched, text, h)
    IN  /\ op # "panic"
        /\ font_support' = r.font_support
        /\ fetched' = r.fetched
        /\ op' = "notoize"
        /\ cold' = (font_support = <<>>)
        /\ codepoints' = r.codepoints
        /\ names' = r.names
        /\ map' = r.map
        /\ failed' = None
        /\ report' = NoReport
        /\ UNCHANGED remote

\* The call decodes a document: some codepoint of the text lies in a block and
\* is not cached. Otherwise no map with entries is iterated and one seed does.
Decodes(text) ==
    \E i \in 1..Len(text) : find(text[i]) # None /\ text[i] \notin DOMAIN font_support

Seeds(text) ==
    IF Decodes(text) THEN HashSeeds ELSE {[i \in 1..MaxKeys |-> i]}

\* The codepoints the fill loop handles before the first one of blocks[b].
Before(cps, b) == SelectSeq(cps, LAMBDA c : c < blocks[b].start)

\* The codepoints of the request that lie in blocks[b].
Within(cps, b) == SelectSeq(cps, LAMBDA c : find(c) = Some(blocks[b]))

\* As NotoizePanics, the block's entries written before the failure shows.
NotoizePanicsLate(text, h, b) ==
    LET cps == codepoints_of(text)
        st == FillLoop(Before(cps, b), 1,
                       [font_support |-> font_support, data |-> EmptyData,
                        old_block |-> None, disk |-> {}, fetched |-> fetched], h)
        path == PathOf[blocks[b].ix]
    IN  /\ op # "panic"
        /\ Within(cps, b) # <<>>
        /\ NeedsFetch(st.disk, st.font_support, Within(cps, b)[1], path)
        /\ font_support' = InsertBlock(st.font_support, blocks[b], <<>>)
        /\ fetched' = [st.fetched EXCEPT ![path] = @ + 1]
        /\ op' = "panic"
        /\ failed' = Some(path)
        /\ UNCHANGED <<remote, cold, codepoints, names, map, report>>

\* client.notoize(text) when the fetch or the decoding of the document of
\* blocks[b] fails: the loop reaches the block's first codepoint, the guard
\* asks for the fetch, and the unwrap panics before data is assigned.
\* Nothing is returned; the blocks handled before keep what the loop gave them.
NotoizePanics(text, h, b) ==
    LET cps == codepoints_of(text)
        st == FillLoop(Before(cps, b), 1,
                       [font_support |-> font_support, data |-> EmptyData,
                        old_block |-> None, disk |-> {}, fetched |-> fetched], h)
        path == PathOf[blocks[b].ix]
    IN  /\ op # "panic"
        /\ Within(cps, b) # <<>>
        /\ NeedsFetch(st.disk, st.font_support, Within(cps, b)[1], path)
        /\ font_support' = st.font_support
        /\ fetched' = [st.fetched EXCEPT ![path] = @ + 1]
        /\ op' = "panic"
        /\ failed' = Some(path)
        /\ UNCHANGED <<remote, cold, codepoints, names, map, report>>

\* stack.map_string() on the FontStack the last call returned.
MapString ==
    /\ op = "notoize"
    /\ op' = "map_string"
    /\ report' = map_string(map)
    /\ UNCHANGED <<remote, font_support, fetched, cold, codepoints, names, map, failed>>

Next ==
    \/ New
    \/ \E text \in Texts : \E h \in Seeds(text) : Notoize(text, h)
    \/ \E text \in Texts : \E h \in HashSeeds : \E b \in 1..Len(blocks) :
           NotoizePanics(text, h, b)

Spec == Init /\ [][Next]_vars

\* The support maps a FontStack can carry: whole blocks, each codepoint with
\* one of the lists a document can yield.
StackMaps ==
    UNION {[UNION R -> SupportLists] :
              R \in SUBSET {blocks[b].start..blocks[b].end : b \in 1..Len(blocks)}}

\* The reporter on its own: a FontStack as a call with an empty text returns
\* it on a client whose cache holds m, then map_string. The documents of the
\* host play no part in it.
InitReport ==
    /\ remote = CHOOSE d \in Hosts : TRUE
    /\ \E m \in StackMaps : font_support = m /\ map = m
    /\ fetched = [p \in Paths |->
                    IF \E b \in 1..Len(blocks) :
                           PathOf[blocks[b].ix] = p /\ blocks[b].start \in DOMAIN font_support
                    THEN 1 ELSE 0]
    /\ op = "notoize"
    /\ cold = FALSE
    /\ codepoints = <<>>
    /\ names = <<>>
    /\ failed = None
    /\ report = NoReport

NextReport == MapString

SpecReport == InitReport /\ [][NextReport]_vars

----------------------------------------------------------------------------
(* Properties of the returned stack, the cache and the fetches.            *)

\* The codepoints of the last request.
Requested == SeqSet(codepoints)

\* The block range a codepoint lies in (empty outside every block).
RangeOf(c) == IF find(c) = None THEN {} ELSE find(c)[1].start..find(c)[1].end

\* The requested codepoints whose entry in the returned map is non-empty.
Renderable == {c \in Requested : c \in DOMAIN map /\ map[c] # <<>>}

\* v comes before w under the key (name does not contain "Sans", name).
KeyBefore(v, w) ==
    \/ contains(v, "Sans") /\ ~contains(w, "Sans")
    \/ contains(v, "Sans") = contains(w, "Sans") /\ StrLess(v, w)

\* The least variant of a non-empty list under that key.
LeastVariant(l) ==
    CHOOSE v \in SeqSet(l) : \A w \in SeqSet(l) : w = v \/ KeyBefore(v, w)

\* The family name selected for a renderable codepoint.
FamilyOf(c) == "Noto " \o LeastVariant(map[c])

\* The families of S support every renderable requested codepoint.
Covers(S) ==
    \A c \in Renderable : \E i \in 1..Len(map[c]) : ("Noto " \o map[c][i]) \in S

\* C1: the returned stack is minimal: no proper subset of its family names
\* still holds, for each requested codepoint with a non-empty support list,
\* a family that supports it.
C1_StackMinimal ==
    op = "notoize" =>
        \A S \in SUBSET SeqSet(names) : Covers(S) => S = SeqSet(names)

\* C2: a second call with the same text on the same client returns the same
\* stack names and, through map_string, the same three reports.
C2_WarmIdempotent ==
    [][(op = "notoize" /\ op' = "notoize" /\ codepoints' = codepoints)
        => (names' = names /\ map_string(map') = map_string(map))]_vars

\* C3: on one client each block document is fetched at most once; a call
\* does not fetch a block whose codepoints are keys of the cache, and it
\* fetches at most one document per block its codepoints fall in.
C3_FetchAtMostOnce ==
    [][op' = "notoize" =>
        \A i \in 1..Len(blocks) :
            LET p == PathOf[blocks[i].ix]
                rng == blocks[i].start..blocks[i].end
            IN  /\ fetched'[p] <= 1
                /\ rng \subseteq DOMAIN font_support => fetched'[p] = fetched[p]
                /\ fetched'[p] - fetched[p] <=
                       (IF SeqSet(codepoints') \cap rng # {} THEN 1 ELSE 0)]_vars

\* A call on a client that had block 0 cached asked for codepoint 1 again,
\* and the client has fetched that block's document once.
C3_Witness ==
    /\ op = "notoize"
    /\ ~cold
    /\ 1 \in Requested
    /\ fetched = (PathOf[0] :> 1 @@ PathOf[1] :> 0)

\* C4: the cache only accumulates: a notoize call leaves every key of
\* font_support present and its support list unchanged.
C4_CacheAccumulates ==
    [][op' = "notoize" =>
        \A c \in DOMAIN font_support :
            c \in DOMAIN font_support' /\ font_support'[c] = font_support[c]]_vars

\* C5: the names of the returned stack contain no family name twice.
C5_NoDuplicateNames ==
    \A i, j \in 1..Len(names) : i # j => names[i] # names[j]

\* Two requested codepoints selected the same family, which is listed once.
C5_Witness ==
    /\ op = "notoize"
    /\ \E c, d \in Renderable : c # d /\ FamilyOf(c) = FamilyOf(d)
    /\ names # <<>>

FirstNeeding(n) == SetMin({c \in Renderable : FamilyOf(c) = n})

\* C7: the stack is in first-needed order: every name is selected by some
\* requested codepoint, and name X precedes name Y exactly when the smallest
\* codepoint selecting X is smaller than the smallest codepoint selecting Y.
C7_FirstNeededOrder ==
    op = "notoize" =>
        /\ \A i \in 1..Len(names) : \E c \in Renderable : FamilyOf(c) = names[i]
        /\ \A i, j \in 1..Len(names) :
               i < j <=> FirstNeeding(names[i]) < FirstNeeding(names[j])

\* The Latin-before-Armenian scenario: codepoint 2 needs Sans, 5 Sans Armenian.
C7_Witness ==
    /\ op = "notoize"
    /\ codepoints = <<2, 5>>
    /\ names = <<"Noto Sans", "Noto Sans Armenian">>

\* C8: for each requested codepoint with a non-empty support list the family
\* in the stack is the least variant under the key (no "Sans" in the name,
\* name): the stack holds exactly those families.
C8_SansFirstSelection ==
    op = "notoize" => SeqSet(names) = {FamilyOf(c) : c \in Renderable}

\* A list whose first name in byte order has no "Sans" selects the Sans one.
C8_Witness ==
    /\ op = "notoize"
    /\ 4 \in Requested
    /\ 4 \in DOMAIN map
    /\ map[4] = <<"Kufi Arabic", "Sans Arabic">>
    /\ "Noto Sans Arabic" \in SeqSet(names)
    /\ "Noto Kufi Arabic" \notin SeqSet(names)

\* The codepoints that lie in no block.
Outside == {c \in 0..MaxCp : find(c) = None}

\* C9: a codepoint outside every block range is never a key of the cache or
\* of the returned map, and adding one to a text does not change the stack
\* the call returns.
C9_OutsideBlocksIgnored ==
    /\ \A c \in Outside : c \notin DOMAIN font_support /\ c \notin DOMAIN map
    /\ \A t \in Texts : Len(t) < MaxLen =>
           \A g \in Outside : \A h \in Seeds(t) :
               Run(font_support, fetched, Append(t, g), h).names
                   = Run(font_support, fetched, t, h).names

\* The document fetched for block 1 lists the outside codepoint 3, which
\* the text contained next to a codepoint that put a family on the stack.
C9_Witness ==
    /\ op = "notoize"
    /\ "3" \in DOMAIN remote[PathOf[1]].cps
    /\ fetched[PathOf[1]] = 1
    /\ codepoints = <<3, 5>>
    /\ names = <<"Noto Sans Sunuwar">>

\* C10 as stated: the returned map holds entries only for the requested
\* codepoints; for a text of one covered codepoint it has exactly one entry.
C10_MapOnlyRequested ==
    op = "notoize" =>
        /\ DOMAIN map \subseteq Requested
        /\ (Len(codepoints) = 1 /\ find(codepoints[1]) # None)
               => Cardinality(DOMAIN map) = 1

\* C10 amended: the returned map is a copy of the whole cache: it holds every
\* codepoint of the block of each requested codepoint and of each block an
\* earlier call filled; on a fresh client a text of one covered codepoint
\* gives one entry per codepoint of its block.
C10_MapIsWholeCache ==
    op = "notoize" =>
        /\ map = font_support
        /\ \A c \in Requested : RangeOf(c) \subseteq DOMAIN map
        /\ \A k \in DOMAIN map : RangeOf(k) \subseteq DOMAIN map
        /\ (cold /\ Len(codepoints) = 1) => DOMAIN map = RangeOf(codepoints[1])

\* A fresh client asked for codepoint 1 alone returns entries for 1 and 2.
C10_Witness ==
    /\ op = "notoize"
    /\ cold
    /\ codepoints = <<1>>
    /\ DOMAIN map = {1, 2}

----------------------------------------------------------------------------
(* Properties of the reports and of the calls that fail.                   *)

EmptyReports == [all |-> "", conflicts |-> "", missing |-> ""]

\* C11 as stated: a call with an empty text, on a fresh or on a used client,
\* returns an empty stack and a result whose three reports are empty.
C11_EmptyTextEmptyReports ==
    (op = "notoize" /\ codepoints = <<>>) =>
        /\ names = <<>>
        /\ map_string(map) = EmptyReports

\* C11 amended: a call with an empty text returns an empty stack and the
\* client's cache as its map; on a fresh client the three reports are empty,
\* on a used one the all report is empty exactly when every cached list is.
C11_EmptyTextReportsCache ==
    (op = "notoize" /\ codepoints = <<>>) =>
        /\ names = <<>>
        /\ map = font_support
        /\ cold => map_string(map) = EmptyReports
        /\ map_string(map) # MapStringPanic =>
              (map_string(map).all = "" <=> \A c \in DOMAIN map : map[c] = <<>>)

\* An empty text on a used client: the result carries a cached list.
C11_Witness ==
    /\ op = "notoize"
    /\ codepoints = <<>>
    /\ ~cold
    /\ map_string(map) # MapStringPanic
    /\ \E c \in DOMAIN map : map[c] # <<>>

\* The family names the script classifier table can name.
KnownFamilies == {"Noto " \o v : v \in SeqSet(all_variants)}

\* C12 as stated: every family name of the returned stack is "Noto " and a
\* variant of all_variants, whatever the block documents contain.
C12_StackNamesKnown ==
    op = "notoize" => \A i \in 1..Len(names) : names[i] \in KnownFamilies

\* C12 amended: every family name of the returned stack is "Noto " and a
\* variant of the stored support list of a requested codepoint, in the table
\* or not; when a name is outside the table, map_string of the result fails.
C12_StackNamesFromSupport ==
    op = "notoize" =>
        /\ \A i \in 1..Len(names) :
              \E c \in Requested \cap DOMAIN map :
                  \E j \in 1..Len(map[c]) : names[i] = "Noto " \o map[c][j]
        /\ (\E i \in 1..Len(names) : names[i] \notin KnownFamilies)
              => map_string(map) = MapStringPanic

\* The stack names a family the table does not have, next to one it has.
C12_Witness ==
    /\ op = "notoize"
    /\ names = <<"Noto Sans", "Noto Sans Sunuwar">>

\* The header line of a codepoint's entry in a report, with its line end.
HeaderOf(c) == ZeroPad(HexStr(c), 4) \o "\r\n"

\* The positions in a report at which the entry of codepoint c starts: its
\* header at the start of a line (body lines start with spaces).
EntriesAt(rep, c) ==
    LET h == HeaderOf(c)
        n == Len(h)
    IN  {i \in 1..(Len(rep) - n + 1) :
            /\ (i = 1 \/ (i > 2 /\ SubSeq(rep, i - 2, i - 1) = "\r\n"))
            /\ SubSeq(rep, i, i + n - 1) = h}

ListedIn(rep, c) == EntriesAt(rep, c) # {}

\* The codepoints a report could list.
Cps == 0..MaxCp

\* The distinct scripts of the variants of a list.
ScriptsOf(l) == {script(l[i]) : i \in 1..Len(l)}

\* map_string returned its three reports.
Reported == op = "map_string" /\ report # MapStringPanic

\* C13: a codepoint is listed in the conflicts report exactly when it is
\* listed in the all report and its support list has variants of two or more
\* distinct scripts; so every codepoint of conflicts is one of all.
C13_ConflictsIffTwoScripts ==
    Reported =>
        \A c \in Cps :
            /\ ListedIn(report.conflicts, c) <=>
                  (/\ ListedIn(report.all, c)
                   /\ c \in DOMAIN map
                   /\ Cardinality(ScriptsOf(map[c])) >= 2)
            /\ ListedIn(report.conflicts, c) => ListedIn(report.all, c)

\* The reports list one codepoint with two scripts under conflicts and
\* another, with one script, under all only.
C13_Witness ==
    /\ Reported
    /\ \E c, d \in Cps :
          /\ ListedIn(report.conflicts, c)
          /\ ListedIn(report.all, d)
          /\ ~ListedIn(report.conflicts, d)

\* The text of the entry of codepoint c in a report: from its header up to
\* the next header or the end of the report.
EntryOf(rep, c) ==
    LET from == SetMin(EntriesAt(rep, c))
        later == {j \in UNION {EntriesAt(rep, d) : d \in Cps \ {c}} : j > from}
    IN  SubSeq(rep, from, IF later = {} THEN Len(rep) ELSE SetMin(later) - 1)

\* The positions in an entry at which a variant name starts: after the
\* indentation of a body line or after a comma and space.
NameStarts(e) ==
    {p \in 3..Len(e) :
        \/ SubSeq(e, p - 2, p - 1) = ", "
        \/ (p > 6 /\ SubSeq(e, p - 6, p - 1) = "\r\n    ")}

\* The name starting at p runs up to the next comma or line end.
NameAt(e, p) ==
    SubSeq(e, p, SetMin({q \in p..(Len(e) - 1) : SubSeq(e, q, q + 1) \in {", ", "\r\n"}}) - 1)

\* The variants a report lists under codepoint c.
ListedUnder(rep, c) ==
    IF ListedIn(rep, c)
    THEN LET e == EntryOf(rep, c) IN {NameAt(e, p) : p \in NameStarts(e)}
    ELSE {}

\* The known variants that share a script with a variant of the list and are
\* not in the list.
AbsentOfScripts(l) ==
    LET sc == ScriptsOf(l)
        own == SeqSet(l)
    IN  {v \in DOMAIN ScriptOf : ScriptOf[v] \in sc /\ v \notin own}

\* C14: the variants the missing report lists under a codepoint are exactly
\* the known variants whose script is that of some variant of the codepoint's
\* support list and which are not in the list; no variant of the codepoint's
\* own list is reported missing.
C14_MissingExact ==
    Reported =>
        \A c \in Cps :
            LET under == ListedUnder(report.missing, c)
            IN  /\ under = (IF c \in DOMAIN map THEN AbsentOfScripts(map[c]) ELSE {})
                /\ c \in DOMAIN map => under \cap SeqSet(map[c]) = {}

\* The missing report lists several variants under a codepoint whose list has
\* two scripts, and nothing under another codepoint the all report lists.
C14_Witness ==
    /\ Reported
    /\ \E c, d \in DOMAIN map :
          /\ Cardinality(ScriptsOf(map[c])) = 2
          /\ Cardinality(ListedUnder(report.missing, c)) >= 2
          /\ ListedIn(report.all, d)
          /\ ListedUnder(report.missing, d) = {}

\* C15 as stated: a codepoint whose support list is the neutral-script
\* variant "Sans" alone is listed neither under conflicts nor under missing.
C15_SansOnlyUnreported ==
    Reported =>
        \A c \in DOMAIN map :
            map[c] = <<"Sans">> =>
                /\ ~ListedIn(report.conflicts, c)
                /\ ~ListedIn(report.missing, c)

\* C15 amended: such a codepoint is listed under all with "Sans", not under
\* conflicts, and under missing with the other two variants of the neutral
\* script, "Serif" and "Sans Mono", in table order.
C15_SansOnlyMissesNeutral ==
    Reported =>
        \A c \in DOMAIN map :
            map[c] = <<"Sans">> =>
                /\ EntryOf(report.all, c) = HeaderOf(c) \o "    Sans\r\n"
                /\ ~ListedIn(report.conflicts, c)
                /\ ListedIn(report.missing, c)
                /\ EntryOf(report.missing, c) = HeaderOf(c) \o "    Serif, Sans Mono\r\n"

\* map_string reported on a map in which a codepoint has "Sans" alone.
C15_Witness ==
    /\ Reported
    /\ \E c \in DOMAIN map : map[c] = <<"Sans">> /\ ListedIn(report.all, c)

\* C16: the all report lists every codepoint of the support map whose list
\* is non-empty exactly once, lists no codepoint with an empty list, and
\* lists the codepoints in ascending numeric order.
C16_AllListsNonEmptyAscending ==
    Reported =>
        LET at == [c \in Cps |-> EntriesAt(report.all, c)]
        IN  /\ \A c \in Cps :
                  Cardinality(at[c]) =
                      (IF c \in DOMAIN map /\ map[c] # <<>> THEN 1 ELSE 0)
            /\ \A c, d \in Cps :
                  (c < d /\ at[c] # {} /\ at[d] # {}) => SetMax(at[c]) < SetMin(at[d])

\* The all report lists two codepoints of a map that holds a third one with
\* an empty list.
C16_Witness ==
    /\ Reported
    /\ \E c, d \in Cps : c < d /\ ListedIn(report.all, c) /\ ListedIn(report.all, d)
    /\ \E e \in DOMAIN map : map[e] = <<>>

\* The per-codepoint map of a block document lists the codepoint c.
Lists(d, c) == \E k \in DOMAIN d.cps : ParseU32(k) = c

\* The document the host serves for the block of a cached codepoint.
DocumentOf(c) == remote[PathOf[find(c)[1].ix]]

\* C17: blocks are filled whole: of each block range no codepoint or every
\* codepoint is a key of the cache, and a cached codepoint that the
\* per-codepoint map of its block's document does not list has an empty
\* support list.
C17_BlocksFilledWhole ==
    /\ \A b \in 1..Len(blocks) :
          LET rng == blocks[b].start..blocks[b].end
          IN  rng \cap DOMAIN font_support = {} \/ rng \subseteq DOMAIN font_support
    /\ \A c \in DOMAIN font_support :
          ~Lists(DocumentOf(c), c) => font_support[c] = <<>>

\* The list a block document gives for a codepoint it lists: the block-wide
\* list when present, else the codepoint's own list, none counting as empty.
DocumentList(d, c) ==
    LET v == d.cps[CHOOSE k \in DOMAIN d.cps : ParseU32(k) = c]
    IN  IF d.fonts # None THEN d.fonts[1]
        ELSE IF v.fonts # None THEN v.fonts[1] ELSE <<>>

EndsIn(f, a) == Len(f) >= Len(a) /\ SubSeq(f, Len(f) - Len(a) + 1, Len(f)) = a

NoLayoutSuffix(f) == ~EndsIn(f, "UI") /\ ~EndsIn(f, "Display")

NoLayoutWord(f) == ~contains(f, "UI") /\ ~contains(f, "Display")

\* The call of this step fetched the document of blocks[b] and filled the
\* block from it.
FilledFromDocument(b) ==
    /\ op' = "notoize"
    /\ fetched'[PathOf[blocks[b].ix]] = fetched[PathOf[blocks[b].ix]] + 1

\* C18 as stated: when a block is filled from its document, the list stored
\* for a listed codepoint is the document's list for it with exactly the
\* variants whose name ends in "UI" or "Display" removed, the others kept in
\* the document's order.
C18_SuffixVariantsRemoved ==
    [][\A b \in 1..Len(blocks) :
          FilledFromDocument(b) =>
              \A c \in blocks[b].start..blocks[b].end :
                  Lists(remote[PathOf[blocks[b].ix]], c) =>
                      font_support'[c] =
                          SelectSeq(DocumentList(remote[PathOf[blocks[b].ix]], c),
                                    NoLayoutSuffix)]_vars

\* C18 amended: the variants removed are exactly those whose name contains
\* "UI" or "Display", at its end or elsewhere; the others are kept in the
\* document's order.
C18_LayoutVariantsRemoved ==
    [][\A b \in 1..Len(blocks) :
          FilledFromDocument(b) =>
              \A c \in blocks[b].start..blocks[b].end :
                  Lists(remote[PathOf[blocks[b].ix]], c) =>
                      font_support'[c] =
                          SelectSeq(DocumentList(remote[PathOf[blocks[b].ix]], c),
                                    NoLayoutWord)]_vars

\* Block 1 was filled from a document whose list for codepoint 5 has
\* "Display" inside a name; the stored list does not have that name.
C18_Witness ==
    /\ op = "notoize"
    /\ fetched[PathOf[1]] = 1
    /\ "Serif Display Italic" \in SeqSet(DocumentList(remote[PathOf[1]], 5))
    /\ font_support[5] = <<"Music", "Sans Sunuwar">>

\* C19: when the fetch or the decoding of a block document fails during a
\* call, the call aborts: no FontStack is returned, the document was asked
\* for once and is not asked for again, no entry of the failed block is in
\* the cache, and nothing but a new client follows.
C19_FetchFailureFatal ==
    [][/\ (op' = "panic" /\ op # "panic") =>
            /\ failed' # None
            /\ names' = names /\ map' = map /\ report' = report
            /\ fetched'[failed'[1]] = fetched[failed'[1]] + 1
            /\ \A p \in Paths \ {failed'[1]} : fetched'[p] - fetched[p] \in {0, 1}
            /\ \A b \in 1..Len(blocks) :
                  PathOf[blocks[b].ix] = failed'[1] =>
                      (blocks[b].start..blocks[b].end) \cap DOMAIN font_support' = {}
       /\ op = "panic" => (op' = "new" /\ font_support' = <<>>)]_vars

\* A call filled block 0 and then failed on the document of block 1.
C19_Witness ==
    /\ op = "panic"
    /\ failed = Some(PathOf[1])
    /\ fetched = (PathOf[0] :> 1 @@ PathOf[1] :> 1)
    /\ DOMAIN font_support = 1..2

\* C20: the returned stack covers the returned map: for every requested
\* codepoint with a non-empty entry the stack has "Noto " and some variant of
\* that entry, and every name of the stack is the family selected for at
\* least one requested codepoint.
C20_StackCoversMap ==
    op = "notoize" =>
        /\ Covers(SeqSet(names))
        /\ \A i \in 1..Len(names) : \E c \in Renderable : names[i] = FamilyOf(c)

\* Two requested codepoints with different lists, each with its family.
C20_Witness ==
    /\ op = "notoize"
    /\ codepoints = <<1, 2>>
    /\ map[1] = <<"Sans", "Sans Devanagari">>
    /\ map[2] = <<"Serif Devanagari", "Sans Devanagari">>
    /\ names = <<"Noto Sans", "Noto Sans Devanagari">>

====
